---- MODULE Spec2Model ----
(***************************************************************************)
(* Model of the physics engine of three_body_sim.py                        *)
(* (AdvancedThreeBodySimulation and the physics part of Body).             *)
(*                                                                         *)
(* Reals.  Python floats are modelled as fixed-point numbers: the integer  *)
(* n stands for the real n / SCALE.  All arithmetic is sign-symmetric      *)
(* (rounding toward zero), as IEEE arithmetic is, and an expression        *)
(* x * y / z is rounded once.  Model units are chosen so that every        *)
(* quantity fits the resolution: the time unit is the second of the code   *)
(* (the collision decay window is 1.0), the length unit is the one in      *)
(* which error_tolerance (a length: dt = sqrt(tol / acceleration)) is      *)
(* ErrorTolerance / SCALE, and settings, G, masses, positions and          *)
(* velocities are inputs given in these units.                             *)
(*                                                                         *)
(* The random visual state of a body (pulsation phase, particle timer,     *)
(* particles) is kept in `visual`, drawn from the generator state `rng`.   *)
(* Left out (never read again by the engine): trail, speed_history,        *)
(* radius, glow, colours.                                                  *)
(***************************************************************************)
EXTENDS Integers, Sequences, FiniteSets, TLC

VARIABLES
    settings,                   \* PhysicsSettings of the instance
    G,                          \* self.G
    bodies,                     \* self.bodies: sequence of Body records
    time,                       \* self.time
    frame_count,                \* self.frame_count
    paused,                     \* self.paused
    energy_history,             \* self.energy_history
    momentum_history,           \* self.momentum_history
    angular_momentum_history,   \* self.angular_momentum_history
    current_dt,                 \* self.current_dt
    collision_events,           \* self.collision_events
    center_of_mass,             \* self.center_of_mass
    center_of_mass_velocity,    \* self.center_of_mass_velocity
    visual,                     \* per body: pulsation_phase, particle_timer, particles
    rng,                        \* the state of the generator of module random
    twin,                       \* a second instance built by the same factory
    returned,                   \* the value the last call returned (<<>> for None)
    raised,                     \* the last call ended in a ZeroDivisionError
    current_scenario,           \* AdvancedRenderer.current_scenario, the other
                                \* variables then being those of its current_sim
    elapsed,                    \* per body: dt of the running steps since its
                                \* collision flag was set, 0 while it is not set
    last,                       \* the call that produced this state: [op, a, b]
    calls                       \* calls made so far: [steps, resets]

vars == <<settings, G, bodies, time, frame_count, paused, energy_history,
          momentum_history, angular_momentum_history, current_dt,
          collision_events, center_of_mass, center_of_mass_velocity,
          visual, rng, twin, returned, raised, current_scenario, elapsed, last,
          calls>>

physics == <<settings, G, bodies, time, frame_count, paused, energy_history,
             momentum_history, angular_momentum_history, current_dt,
             collision_events, center_of_mass, center_of_mass_velocity>>

----------------------------------------------------------------------------
(* Bounds of the model *)

\* resolution of the fixed-point reals: n stands for n / SCALE
SCALE == 100
\* running step() calls of one behaviour of Spec
MaxSteps == 2
\* reset() calls of one behaviour
MaxResets == 1
\* entries the collision log may hold before the force model is no longer called
MaxEvents == 1
\* bodies added to one simulation
MaxBodies == 3

----------------------------------------------------------------------------
(* Fixed-point arithmetic *)

Abs(a) == IF a < 0 THEN -a ELSE a

Min(a, b) == IF a <= b THEN a ELSE b

Max(a, b) == IF a >= b THEN a ELSE b

\* quotient rounded toward zero
QDiv(a, b) ==
    IF (a < 0) = (b < 0) THEN Abs(a) \div Abs(b) ELSE -(Abs(a) \div Abs(b))

\* the real number n
Real(n) == n * SCALE

\* 0.5
HALF == SCALE \div 2

\* x * y
Mul(a, b) == QDiv(a * b, SCALE)

\* x / y
Div(a, b) == QDiv(a * SCALE, b)

\* x * y / z, rounded once
MulDiv(a, b, c) == QDiv(a * b, c)

RECURSIVE SqrtIter(_, _, _)
SqrtIter(n, lo, hi) ==
    IF lo >= hi THEN lo
    ELSE LET mid == (lo + hi + 1) \div 2
         IN  IF mid * mid <= n THEN SqrtIter(n, mid, hi)
                               ELSE SqrtIter(n, lo, mid - 1)

\* floor of the square root of the natural number n
ISqrt(n) == SqrtIter(n, 0, Min(n, 46340))

\* math.sqrt(x)
Sqrt(a) == ISqrt(a * SCALE)

\* a**2 + b**2 + c**2
SumSq(a, b, c) == QDiv(a * a + b * b + c * c, SCALE)

\* math.sqrt(a**2 + b**2)
Norm(a, b) == ISqrt(a * a + b * b)

RECURSIVE SeqOf(_, _)
\* the sequence <<F(1), ..., F(n)>>, built element by element
SeqOf(F(_), n) == IF n = 0 THEN <<>> ELSE Append(SeqOf(F, n - 1), F(n))

RECURSIVE SumSeq(_)
SumSeq(s) == IF s = <<>> THEN 0 ELSE Head(s) + SumSeq(Tail(s))

RECURSIVE MaxSeq(_, _)
\* the running max(max_acceleration, acc_mag) over s, from m
MaxSeq(s, m) == IF s = <<>> THEN m ELSE MaxSeq(Tail(s), Max(m, Head(s)))

\* np.clip with the lower bound forgotten
ClipWithoutLowerBound(v, lo, hi) == Min(v, hi)

\* np.clip(v, lo, hi) = minimum(maximum(v, lo), hi)
Clip(v, lo, hi) == Min(Max(v, lo), hi)

----------------------------------------------------------------------------
(* Body *)

\* Body.__init__: the physics fields of a new body
Body(name, mass, x, y, vx, vy) ==
    [name |-> name, mass |-> mass, x |-> x, y |-> y, vx |-> vx, vy |-> vy,
     force_x |-> 0, force_y |-> 0,
     acceleration_x |-> 0, acceleration_y |-> 0,
     collision_detected |-> FALSE, collision_timer |-> 0]

\* the decay window of the collision flag, in seconds (1.0)
CollisionWindow == Real(1)

\* Body.update_visual_effects: the collision part
update_visual_effects(b, dt) ==
    IF b.collision_detected
    THEN LET t == b.collision_timer + dt
         IN  IF t > CollisionWindow
             THEN [b EXCEPT !.collision_detected = FALSE, !.collision_timer = 0]
             ELSE [b EXCEPT !.collision_timer = t]
    ELSE b

\* Body.get_kinetic_energy
get_kinetic_energy(b) == Mul(Mul(HALF, b.mass), SumSq(b.vx, b.vy, 0))

----------------------------------------------------------------------------
(* Module random, and the visual state of a body that is drawn from it *)

\* the number of states of the generator
RngStates == 64

\* the state of the generator after one more draw
rng_next(s) == (21 * s + 7) % RngStates

RECURSIVE rng_after(_, _)
\* the state of the generator after k more draws
rng_after(s, k) == IF k = 0 THEN s ELSE rng_after(rng_next(s), k - 1)

\* random.uniform(a, b), as the k-th draw from state s on
uniform(a, b, s, k) == a + QDiv((b - a) * rng_after(s, k), RngStates)

\* Body.__init__: the visual fields of a new body, its phase drawn from state s
Visual(s) ==
    [pulsation_phase |-> uniform(0, (628 * SCALE) \div 100, s, 1),
     particle_timer |-> 0,
     particles |-> <<>>]

\* the Particle that emit_particles constructs for body b, its six draws from s
Particle(b, s) ==
    [life |-> uniform(Real(2), Real(4), s, 1),
     x |-> b.x + uniform(-(SCALE \div 10), SCALE \div 10, s, 2),
     y |-> b.y + uniform(-(SCALE \div 10), SCALE \div 10, s, 3),
     vx |-> uniform(-(SCALE \div 10), SCALE \div 10, s, 4),
     vy |-> uniform(-(SCALE \div 10), SCALE \div 10, s, 5),
     size |-> uniform(Real(1), Real(3), s, 6)]

\* Particle.update
particle_update(p, dt) ==
    [p EXCEPT !.x = @ + Mul(p.vx, dt),
              !.y = @ + Mul(p.vy, dt),
              !.life = @ - dt,
              !.vx = Mul(@, (98 * SCALE) \div 100),
              !.vy = Mul(@, (98 * SCALE) \div 100)]

\* emit_particles: the particles that are alive, updated
particles_update(ps, dt) ==
    SeqOf(LAMBDA k : particle_update(SelectSeq(ps, LAMBDA p : p.life > 0)[k], dt),
          Len(SelectSeq(ps, LAMBDA p : p.life > 0)))

\* self.particle_emission_rate, as Body.__init__ sets it
particle_emission_rate == Real(2)

\* emit_particles: whether the timer has reached the emission period
emission_due(timer) == timer >= Div(Real(1), particle_emission_rate)

\* emit_particles: whether a particle is emitted
emits(b, timer) == emission_due(timer) /\ Norm(b.vx, b.vy) > SCALE \div 10

\* Body.emit_particles of body b with visual fields v: the new visual fields
\* and the new state of the generator
emit_particles(b, v, dt, s) ==
    [visual |->
        [v EXCEPT
           !.particle_timer = IF emission_due(@ + dt) THEN 0 ELSE @ + dt,
           !.particles =
               particles_update(IF emits(b, v.particle_timer + dt)
                                THEN Append(@, Particle(b, s)) ELSE @, dt)],
     rng |-> IF emits(b, v.particle_timer + dt) THEN rng_after(s, 6) ELSE s]

\* Body.update_visual_effects: the pulsation part
pulsate(v, dt) == [v EXCEPT !.pulsation_phase = @ + Mul(dt, Real(3))]

RECURSIVE visual_loop(_, _, _, _, _)
RECURSIVE visual_next(_, _, _, _, _)
\* step: the visual fields of body i after the loop body, then the bodies after it
visual_next(bs, vis, i, dt, e) ==
    visual_loop(bs, [vis EXCEPT ![i] = pulsate(e.visual, dt)], i + 1, dt, e.rng)

\* step: emit_particles and update_visual_effects of the bodies i, i+1, ...
visual_loop(bs, vis, i, dt, s) ==
    IF i > Len(bs) THEN [visual |-> vis, rng |-> s]
    ELSE visual_next(bs, vis, i, dt, emit_particles(bs[i], vis[i], dt, s))

----------------------------------------------------------------------------
(* AdvancedThreeBodySimulation: pure parts *)

\* self.error_tolerance, in model length units
ErrorTolerance == 4

\* max_history of calculate_conserved_quantities
max_history == 1000

\* the steps between two samples of the conserved quantities
SampleEvery == 10

Idx(bs) == 1..Len(bs)

\* update_center_of_mass: [com, vel], or the old values when there is no body
update_center_of_mass(bs, old_com, old_vel) ==
    IF bs = <<>> THEN [com |-> old_com, vel |-> old_vel]
    ELSE LET total_mass == SumSeq(SeqOf(LAMBDA i : bs[i].mass, Len(bs)))
             n == Len(bs)
             com_x  == Div(SumSeq(SeqOf(LAMBDA i : Mul(bs[i].mass, bs[i].x), n)), total_mass)
             com_y  == Div(SumSeq(SeqOf(LAMBDA i : Mul(bs[i].mass, bs[i].y), n)), total_mass)
             com_vx == Div(SumSeq(SeqOf(LAMBDA i : Mul(bs[i].mass, bs[i].vx), n)), total_mass)
             com_vy == Div(SumSeq(SeqOf(LAMBDA i : Mul(bs[i].mass, bs[i].vy), n)), total_mass)
         IN  [com |-> <<com_x, com_y>>, vel |-> <<com_vx, com_vy>>]

\* calculate_gravitational_force: actual_distance of the pair
actual_distance(b1, b2) == Norm(b2.x - b1.x, b2.y - b1.y)

\* the collision test with <= for <
collides_inclusive(b1, b2, st) == actual_distance(b1, b2) <= st.collision_threshold

\* calculate_gravitational_force: the collision test
collides(b1, b2, st) == actual_distance(b1, b2) < st.collision_threshold

\* r_squared without the softening term
r_squared_unsoftened(dx, dy, st) == SumSq(dx, dy, 0)

\* r_squared = dx**2 + dy**2 + softening_parameter**2
r_squared_of(dx, dy, st) == SumSq(dx, dy, st.softening_parameter)

\* calculate_gravitational_force: the returned (Fx, Fy)
force_value(b1, b2, st, g) ==
    LET dx == b2.x - b1.x
        dy == b2.y - b1.y
        r_squared == r_squared_of(dx, dy, st)
        r == Sqrt(r_squared)
        F_magnitude == MulDiv(Mul(g, b1.mass), b2.mass, r_squared)
    IN  <<MulDiv(F_magnitude, dx, r), MulDiv(F_magnitude, dy, r)>>

\* a_magnitude * dx / r and a_magnitude * dy / r
acceleration_components(a_magnitude, dx, dy, r) ==
    <<MulDiv(a_magnitude, dx, r), MulDiv(a_magnitude, dy, r)>>

\* the acceleration along (dx, dy) due to a mass m at softened distance^2 r_squared
acceleration_at(dx, dy, r_squared, m, g) ==
    acceleration_components(MulDiv(g, m, r_squared), dx, dy, Sqrt(r_squared))

\* the acceleration of a body at (px, py) due to a mass m at (qx, qy)
pair_acceleration(px, py, qx, qy, m, st, g) ==
    acceleration_at(qx - px, qy - py, r_squared_of(qx - px, qy - py, st), m, g)

\* the state vector of rk4_step: (x, y, vx, vy) of every body, in order
state_of(bs) ==
    SeqOf(LAMBDA k :
            LET b == bs[(k - 1) \div 4 + 1]
                c == (k - 1) % 4
            IN  IF c = 0 THEN b.x ELSE IF c = 1 THEN b.y
                ELSE IF c = 2 THEN b.vx ELSE b.vy,
          4 * Len(bs))

\* the sum of the accelerations of body i due to every other body
sum_accelerations(a) ==
    <<SumSeq(SeqOf(LAMBDA j : a[j][1], Len(a))),
      SumSeq(SeqOf(LAMBDA j : a[j][2], Len(a)))>>

\* get_derivatives_rk4 taking the mass of the body itself for that of the other
rk4_accelerations_own_mass(bs, state, st, g) ==
    SeqOf(LAMBDA i :
            sum_accelerations(
                SeqOf(LAMBDA j :
                        IF i # j
                        THEN pair_acceleration(state[4 * (i - 1) + 1],
                                               state[4 * (i - 1) + 2],
                                               state[4 * (j - 1) + 1],
                                               state[4 * (j - 1) + 2],
                                               bs[i].mass, st, g)
                        ELSE <<0, 0>>,
                      Len(bs))),
          Len(bs))

\* get_derivatives_rk4: (ax, ay) of every body, from the positions in `state`
rk4_accelerations(bs, state, st, g) ==
    SeqOf(LAMBDA i :
            sum_accelerations(
                SeqOf(LAMBDA j :
                        IF i # j
                        THEN pair_acceleration(state[4 * (i - 1) + 1],
                                               state[4 * (i - 1) + 2],
                                               state[4 * (j - 1) + 1],
                                               state[4 * (j - 1) + 2],
                                               bs[j].mass, st, g)
                        ELSE <<0, 0>>,
                      Len(bs))),
          Len(bs))

\* get_derivatives_rk4: what it returns and what it stores in the bodies
rk4_record(bs, state, acc) ==
    [derivatives |->
        SeqOf(LAMBDA k :
                IF (k - 1) % 4 < 2 THEN state[k + 2]
                ELSE acc[(k - 1) \div 4 + 1][((k - 1) % 4) - 1],
              4 * Len(bs)),
     bodies |->
        SeqOf(LAMBDA i :
                [bs[i] EXCEPT !.force_x = Mul(acc[i][1], bs[i].mass),
                              !.force_y = Mul(acc[i][2], bs[i].mass),
                              !.acceleration_x = acc[i][1],
                              !.acceleration_y = acc[i][2]],
              Len(bs))]

\* get_derivatives_rk4: the derivatives of `state`, and the bodies with the
\* force and acceleration fields this call writes
get_derivatives_rk4(bs, state, st, g) ==
    rk4_record(bs, state, rk4_accelerations(bs, state, st, g))

\* state + c * k
Advance(state, c, k) == SeqOf(LAMBDA i : state[i] + Mul(c, k[i]), Len(state))

\* rk4_step: new_state, written into the bodies
rk4_apply(bs, state, dt, k1, k2, k3, k4) ==
    SeqOf(LAMBDA i :
            [bs[i] EXCEPT
               !.x  = state[4 * i - 3] + Mul(Div(dt, Real(6)),
                         k1[4 * i - 3] + 2 * k2[4 * i - 3] + 2 * k3[4 * i - 3] + k4[4 * i - 3]),
               !.y  = state[4 * i - 2] + Mul(Div(dt, Real(6)),
                         k1[4 * i - 2] + 2 * k2[4 * i - 2] + 2 * k3[4 * i - 2] + k4[4 * i - 2]),
               !.vx = state[4 * i - 1] + Mul(Div(dt, Real(6)),
                         k1[4 * i - 1] + 2 * k2[4 * i - 1] + 2 * k3[4 * i - 1] + k4[4 * i - 1]),
               !.vy = state[4 * i] + Mul(Div(dt, Real(6)),
                         k1[4 * i] + 2 * k2[4 * i] + 2 * k3[4 * i] + k4[4 * i])],
          Len(bs))

\* rk4_step, from the result r4 of the k4 evaluation on
rk4_after_k4(r4, state, dt, k1, k2, k3) ==
    rk4_apply(r4.bodies, state, dt, k1, k2, k3, r4.derivatives)

\* rk4_step, from the result r3 of the k3 evaluation on
rk4_after_k3(r3, state, dt, st, g, k1, k2) ==
    rk4_after_k4(get_derivatives_rk4(r3.bodies, Advance(state, dt, r3.derivatives), st, g),
                 state, dt, k1, k2, r3.derivatives)

\* rk4_step, from the result r2 of the k2 evaluation on
rk4_after_k2(r2, state, dt, st, g, k1) ==
    rk4_after_k3(get_derivatives_rk4(r2.bodies,
                                     Advance(state, Mul(HALF, dt), r2.derivatives), st, g),
                 state, dt, st, g, k1, r2.derivatives)

\* rk4_step, from the result r1 of the k1 evaluation on
rk4_after_k1(r1, state, dt, st, g) ==
    rk4_after_k2(get_derivatives_rk4(r1.bodies,
                                     Advance(state, Mul(HALF, dt), r1.derivatives), st, g),
                 state, dt, st, g, r1.derivatives)

\* rk4_step, from the state vector on
rk4_from(bs, state, dt, st, g) ==
    rk4_after_k1(get_derivatives_rk4(bs, state, st, g), state, dt, st, g)

\* rk4_step without its guard on the number of bodies
rk4_step_unguarded(bs, dt, st, g) == rk4_from(bs, state_of(bs), dt, st, g)

\* rk4_step
rk4_step(bs, dt, st, g) ==
    IF Len(bs) < 2 THEN bs ELSE rk4_from(bs, state_of(bs), dt, st, g)

\* calculate_acceleration of body i
calculate_acceleration(bs, i, st, g) ==
    sum_accelerations(
        SeqOf(LAMBDA j :
                IF j # i
                THEN pair_acceleration(bs[i].x, bs[i].y, bs[j].x, bs[j].y,
                                       bs[j].mass, st, g)
                ELSE <<0, 0>>,
              Len(bs)))

\* the half velocity step also recording the acceleration on the body
kicked_recording(bs, i, dt, a) ==
    [bs EXCEPT ![i].vx = @ + Mul(Mul(HALF, dt), a[1]),
               ![i].vy = @ + Mul(Mul(HALF, dt), a[2]),
               ![i].acceleration_x = a[1],
               ![i].acceleration_y = a[2]]

\* leapfrog_step: body i after its half velocity step with acceleration a
kicked(bs, i, dt, a) ==
    [bs EXCEPT ![i].vx = @ + Mul(Mul(HALF, dt), a[1]),
               ![i].vy = @ + Mul(Mul(HALF, dt), a[2])]

RECURSIVE kick(_, _, _, _, _)
\* leapfrog_step: a half velocity step of the bodies i, i+1, ..., one after another
kick(bs, i, dt, st, g) ==
    IF i > Len(bs) THEN bs
    ELSE kick(kicked(bs, i, dt, calculate_acceleration(bs, i, st, g)),
              i + 1, dt, st, g)

RECURSIVE drift(_, _, _)
\* leapfrog_step: the full position step of the bodies i, i+1, ...
drift(bs, i, dt) ==
    IF i > Len(bs) THEN bs
    ELSE drift([bs EXCEPT ![i].x = @ + Mul(dt, bs[i].vx),
                          ![i].y = @ + Mul(dt, bs[i].vy)], i + 1, dt)

RECURSIVE kick_then_drift(_, _, _, _, _)
\* a half velocity step and at once the position step of the bodies i, i+1, ...
kick_then_drift(bs, i, dt, st, g) ==
    IF i > Len(bs) THEN bs
    ELSE LET k == kicked(bs, i, dt, calculate_acceleration(bs, i, st, g))
         IN  kick_then_drift([k EXCEPT ![i].x = @ + Mul(dt, k[i].vx),
                                       ![i].y = @ + Mul(dt, k[i].vy)],
                             i + 1, dt, st, g)

\* leapfrog_step with the first two loops fused into one
leapfrog_step_interleaved(bs, dt, st, g) ==
    IF Len(bs) < 2 THEN bs
    ELSE kick(kick_then_drift(bs, 1, dt, st, g), 1, dt, st, g)

\* leapfrog_step
leapfrog_step(bs, dt, st, g) ==
    IF Len(bs) < 2 THEN bs
    ELSE kick(drift(kick(bs, 1, dt, st, g), 1, dt), 1, dt, st, g)

\* the choice of the integrator with Leapfrog as the fallback
integrate_fallback_leapfrog(bs, dt, st, g) ==
    IF st.integration_method = "RK4" THEN rk4_step(bs, dt, st, g)
    ELSE leapfrog_step(bs, dt, st, g)

\* step: the choice of the integrator
integrate(bs, dt, st, g) ==
    IF st.integration_method = "RK4" THEN rk4_step(bs, dt, st, g)
    ELSE IF st.integration_method = "Leapfrog" THEN leapfrog_step(bs, dt, st, g)
    ELSE rk4_step(bs, dt, st, g)

\* adaptive_timestep_control taking a zero acceleration for an unbounded proposal
adaptive_timestep_control_at_rest(bs, dt, st) ==
    IF ~st.adaptive_timestep THEN dt
    ELSE LET max_acceleration ==
                 MaxSeq(SeqOf(LAMBDA i :
                                Norm(bs[i].acceleration_x, bs[i].acceleration_y),
                              Len(bs)), 0)
         IN  IF max_acceleration > 0
             THEN Clip(Sqrt(Div(ErrorTolerance, max_acceleration)),
                       st.min_dt, st.max_dt)
             ELSE st.max_dt

\* adaptive_timestep_control: the new current_dt
adaptive_timestep_control(bs, dt, st) ==
    IF ~st.adaptive_timestep THEN dt
    ELSE LET max_acceleration ==
                 MaxSeq(SeqOf(LAMBDA i :
                                Norm(bs[i].acceleration_x, bs[i].acceleration_y),
                              Len(bs)), 0)
         IN  IF max_acceleration > 0
             THEN Clip(Sqrt(Div(ErrorTolerance, max_acceleration)),
                       st.min_dt, st.max_dt)
             ELSE dt

\* calculate_conserved_quantities: total_energy
total_energy(bs, st, g) ==
    LET n == Len(bs)
        kinetic_energy == SumSeq(SeqOf(LAMBDA i : get_kinetic_energy(bs[i]), n))
        pair(i, j) ==
            LET r == Norm(bs[j].x - bs[i].x, bs[j].y - bs[i].y)
            IN  IF r > st.softening_parameter
                THEN -MulDiv(Mul(g, bs[i].mass), bs[j].mass, r)
                ELSE 0
        potential_energy ==
            SumSeq(SeqOf(LAMBDA i :
                SumSeq(SeqOf(LAMBDA j : IF j > i THEN pair(i, j) ELSE 0, n)), n))
    IN  kinetic_energy + potential_energy

\* calculate_conserved_quantities: np.linalg.norm(total_momentum)
momentum_norm(bs) ==
    Norm(SumSeq(SeqOf(LAMBDA i : Mul(bs[i].mass, bs[i].vx), Len(bs))),
         SumSeq(SeqOf(LAMBDA i : Mul(bs[i].mass, bs[i].vy), Len(bs))))

\* calculate_conserved_quantities: abs(total_angular_momentum)
angular_momentum_abs(bs) ==
    Abs(SumSeq(SeqOf(LAMBDA i : Mul(Mul(bs[i].x, bs[i].mass), bs[i].vy)
                              - Mul(Mul(bs[i].y, bs[i].mass), bs[i].vx),
                     Len(bs))))

\* record_sample evicting the newest sample instead of the oldest
record_sample_evict_newest(history, sample) ==
    LET h == Append(history, sample)
    IN  IF Len(h) > max_history THEN SubSeq(h, 1, Len(h) - 1) ELSE h

\* calculate_conserved_quantities: append to a history and limit its length
record_sample(history, sample) ==
    LET h == Append(history, sample)
    IN  IF Len(h) > max_history THEN Tail(h) ELSE h

----------------------------------------------------------------------------
(* Inputs: the settings a simulation is constructed with, the bodies added *)

\* integration_method strings: the two known ones and two the code does not know
Methods == {"RK4", "Leapfrog", "Verlet", ""}

\* PhysicsSettings(...), with the softening length 0.1
\* softening_parameter = 0.1, rounded up: its square is above the resolution,
\* as the square of the default 0.01 is in double precision
Softening == (SCALE + 9) \div 10

\* the smallest positive softening_parameter: its square underflows to zero, as
\* the square of 1e-200 does in double precision
TinySoftening == 1

PhysicsSettings(method, adaptive, base_dt, max_dt, min_dt, threshold) ==
    [integration_method |-> method,
     adaptive_timestep |-> adaptive,
     base_dt |-> base_dt,
     max_dt |-> max_dt,
     min_dt |-> min_dt,
     collision_threshold |-> threshold,
     softening_parameter |-> Softening]

\* min_dt = 0.25 <= base_dt = 0.5 <= max_dt
Timesteps(method, adaptive, max_dt, threshold) ==
    PhysicsSettings(method, adaptive, HALF, max_dt, SCALE \div 4, threshold)

\* a collision_threshold above the distance of Beta and Gamma as they are added
WideThreshold == (3 * SCALE) \div 5

\* the settings the simulations of Spec are constructed with
SettingsSet ==
    {Timesteps("RK4", a, Real(1), t) : a \in BOOLEAN, t \in {HALF, WideThreshold}}
    \cup {Timesteps(m, TRUE, Real(1), WideThreshold) : m \in Methods}
    \cup {Timesteps("RK4", TRUE, HALF, WideThreshold)}

\* the body add_body is called with when k - 1 bodies are present: two light
\* bodies far apart, then a heavy one at distance 0.5 of the second
BodyPool ==
    <<Body("Alpha", HALF, -SCALE, 0, 0, -((3 * SCALE) \div 10)),
      Body("Beta", HALF, SCALE, 0, 0, (3 * SCALE) \div 10),
      Body("Gamma", Real(2), SCALE, HALF, -HALF, 0)>>

----------------------------------------------------------------------------
(* AdvancedThreeBodySimulation: the operations *)

Call(op, a, b) == [op |-> op, a |-> a, b |-> b]

\* current_scenario of a simulation that no renderer holds
NoRenderer == ""

\* calculate_gravitational_force divides by an r_squared of zero
force_raises(b1, b2, st) == r_squared_of(b2.x - b1.x, b2.y - b1.y, st) = 0

\* calculate_acceleration of body i divides by an r_squared of zero
acceleration_raises(bs, i, st) ==
    \E j \in Idx(bs) : j # i /\ force_raises(bs[i], bs[j], st)

\* step ends in a ZeroDivisionError: leapfrog_step's first call of
\* calculate_acceleration, for the first body, divides by zero before
\* anything is assigned
step_raises(bs, st) ==
    /\ st.integration_method = "Leapfrog"
    /\ Len(bs) >= 2
    /\ acceleration_raises(bs, 1, st)

\* __init__
Init ==
    /\ current_scenario = NoRenderer
    /\ settings \in SettingsSet
    /\ G = Real(1)
    /\ bodies = <<>>
    /\ time = 0
    /\ frame_count = 0
    /\ paused = FALSE
    /\ energy_history = <<>>
    /\ momentum_history = <<>>
    /\ angular_momentum_history = <<>>
    /\ current_dt = settings.base_dt
    /\ collision_events = <<>>
    /\ center_of_mass = <<0, 0>>
    /\ center_of_mass_velocity = <<0, 0>>
    /\ visual = <<>>
    /\ rng = 0
    /\ twin = <<>>
    /\ returned = <<>>
    /\ raised = FALSE
    /\ elapsed = <<>>
    /\ last = Call("init", 0, 0)
    /\ calls = [steps |-> 0, resets |-> 0]

\* Body(...) and add_body(body)
add_body(body) ==
    LET bs == Append(bodies, body)
        c == update_center_of_mass(bs, center_of_mass, center_of_mass_velocity)
    IN  /\ bodies' = bs
        /\ center_of_mass' = c.com
        /\ center_of_mass_velocity' = c.vel
        /\ visual' = Append(visual, Visual(rng))
        /\ rng' = rng_next(rng)
        /\ elapsed' = Append(elapsed, 0)
        /\ returned' = <<>>
        /\ raised' = FALSE
        /\ last' = Call("add_body", Len(bs), 0)
        /\ UNCHANGED <<current_scenario, settings, G, time, frame_count, paused, energy_history,
                       momentum_history, angular_momentum_history, current_dt,
                       collision_events, twin, calls>>

\* calculate_gravitational_force(bodies[i], bodies[j]): its effects on the state
calculate_gravitational_force(i, j) ==
    /\ IF collides(bodies[i], bodies[j], settings)
       THEN /\ bodies' = [bodies EXCEPT ![i].collision_detected = TRUE,
                                        ![j].collision_detected = TRUE]
            /\ collision_events' =
                  Append(collision_events,
                         <<time, bodies[i].name, bodies[j].name>>)
            /\ elapsed' = SeqOf(LAMBDA k : IF k \in {i, j} /\ ~bodies[k].collision_detected
                                           THEN 0 ELSE elapsed[k], Len(bodies))
       ELSE UNCHANGED <<bodies, collision_events, elapsed>>
    /\ IF force_raises(bodies[i], bodies[j], settings)
       THEN returned' = <<>> /\ raised' = TRUE
       ELSE returned' = force_value(bodies[i], bodies[j], settings, G) /\ raised' = FALSE
    /\ last' = Call("calculate_gravitational_force", i, j)
    /\ UNCHANGED <<current_scenario, settings, G, time, frame_count, paused, energy_history,
                   momentum_history, angular_momentum_history, current_dt,
                   center_of_mass, center_of_mass_velocity, visual, rng, twin,
                   calls>>

\* step, after the bodies are integrated and their effects updated to bs, and
\* the adaptive controller has set the timestep to dt1
step_finish(bs, c, dt1, sample) ==
    [bodies |-> bs,
     center_of_mass |-> c.com,
     center_of_mass_velocity |-> c.vel,
     current_dt |-> dt1,
     energy_history |->
         IF sample THEN record_sample(energy_history, total_energy(bs, settings, G))
                   ELSE energy_history,
     momentum_history |->
         IF sample THEN record_sample(momentum_history, momentum_norm(bs))
                   ELSE momentum_history,
     angular_momentum_history |->
         IF sample THEN record_sample(angular_momentum_history,
                                      angular_momentum_abs(bs))
                   ELSE angular_momentum_history,
     time |-> time + dt1,
     frame_count |-> frame_count + 1]

\* step_after without the update of the center of mass
step_after_stale_center(bs) ==
    step_finish(bs,
                [com |-> center_of_mass, vel |-> center_of_mass_velocity],
                adaptive_timestep_control(bs, current_dt, settings),
                frame_count % SampleEvery = 0 /\ Len(bs) >= 2)

\* step_after testing the step counter as if it were already incremented
step_after_count_first(bs) ==
    step_finish(bs,
                update_center_of_mass(bs, center_of_mass, center_of_mass_velocity),
                adaptive_timestep_control(bs, current_dt, settings),
                (frame_count + 1) % SampleEvery = 0 /\ Len(bs) >= 2)

\* step, after the bodies are integrated and their effects updated to bs
step_after(bs) ==
    step_finish(bs,
                update_center_of_mass(bs, center_of_mass, center_of_mass_velocity),
                adaptive_timestep_control(bs, current_dt, settings),
                frame_count % SampleEvery = 0 /\ Len(bs) >= 2)

\* the loop over the bodies, removing those flagged as collided
update_bodies_merging(bs, dt) ==
    SelectSeq(SeqOf(LAMBDA i : update_visual_effects(bs[i], dt), Len(bs)),
              LAMBDA b : ~b.collision_detected)

\* step: the loop over the bodies after the integrator
update_bodies(bs, dt) == SeqOf(LAMBDA i : update_visual_effects(bs[i], dt), Len(bs))

\* the dt of the running steps since the collision flags still set in bs were set
elapsed_after(bs) ==
    SeqOf(LAMBDA k : IF bs[k].collision_detected THEN elapsed[k] + current_dt ELSE 0,
          Len(bs))

\* the bodies bs, each displaced by a draw of the generator
jittered(bs) ==
    SeqOf(LAMBDA i : [bs[i] EXCEPT !.x = @ + uniform(-(SCALE \div 10), SCALE \div 10, rng, i)],
          Len(bs))

\* step with emit_particles displacing the body instead of the particle
step_result_jittered ==
    step_after(update_bodies(jittered(integrate(bodies, current_dt, settings, G)),
                             current_dt))

\* step, while not paused: the values it leaves in the fields it writes
step_result ==
    step_after(update_bodies(integrate(bodies, current_dt, settings, G), current_dt))

\* step without the test of self.paused
step_ignoring_pause ==
    /\ \E r \in {step_result} :
          /\ bodies' = r.bodies
          /\ center_of_mass' = r.center_of_mass
          /\ center_of_mass_velocity' = r.center_of_mass_velocity
          /\ current_dt' = r.current_dt
          /\ energy_history' = r.energy_history
          /\ momentum_history' = r.momentum_history
          /\ angular_momentum_history' = r.angular_momentum_history
          /\ time' = r.time
          /\ frame_count' = r.frame_count
          /\ elapsed' = elapsed_after(r.bodies)
          /\ \E e \in {visual_loop(r.bodies, visual, 1, current_dt, rng)} :
                /\ visual' = e.visual
                /\ rng' = e.rng
          /\ calls' = [calls EXCEPT !.steps = @ + 1]
    /\ returned' = <<>>
    /\ raised' = FALSE
    /\ last' = Call("step", 0, 0)
    /\ UNCHANGED <<current_scenario, settings, G, paused, collision_events, twin>>

\* step
step ==
    /\ IF paused
       THEN /\ UNCHANGED <<bodies, center_of_mass, center_of_mass_velocity,
                           current_dt, energy_history, momentum_history,
                           angular_momentum_history, time, frame_count,
                           visual, rng, elapsed, calls>>
            /\ raised' = FALSE
       ELSE IF step_raises(bodies, settings)
       THEN /\ UNCHANGED <<bodies, center_of_mass, center_of_mass_velocity,
                           current_dt, energy_history, momentum_history,
                           angular_momentum_history, time, frame_count,
                           visual, rng, elapsed>>
            /\ calls' = [calls EXCEPT !.steps = @ + 1]
            /\ raised' = TRUE
       ELSE \E r \in {step_result} :
                /\ raised' = FALSE
                /\ bodies' = r.bodies
                /\ center_of_mass' = r.center_of_mass
                /\ center_of_mass_velocity' = r.center_of_mass_velocity
                /\ current_dt' = r.current_dt
                /\ energy_history' = r.energy_history
                /\ momentum_history' = r.momentum_history
                /\ angular_momentum_history' = r.angular_momentum_history
                /\ time' = r.time
                /\ frame_count' = r.frame_count
                /\ elapsed' = elapsed_after(r.bodies)
                /\ \E e \in {visual_loop(r.bodies, visual, 1, current_dt, rng)} :
                      /\ visual' = e.visual
                      /\ rng' = e.rng
                /\ calls' = [calls EXCEPT !.steps = @ + 1]
    /\ returned' = <<>>
    /\ last' = Call("step", 0, 0)
    /\ UNCHANGED <<current_scenario, settings, G, paused, collision_events, twin>>

\* reset putting the bodies back where they were added
reset_restoring_bodies ==
    /\ time' = 0
    /\ frame_count' = 0
    /\ current_dt' = settings.base_dt
    /\ energy_history' = <<>>
    /\ momentum_history' = <<>>
    /\ angular_momentum_history' = <<>>
    /\ collision_events' = <<>>
    /\ bodies' = SubSeq(BodyPool, 1, Len(bodies))
    /\ visual' = SeqOf(LAMBDA i : [visual[i] EXCEPT !.particles = <<>>], Len(visual))
    /\ elapsed' = SeqOf(LAMBDA i : 0, Len(elapsed))
    /\ returned' = <<>>
    /\ raised' = FALSE
    /\ last' = Call("reset", 0, 0)
    /\ calls' = [calls EXCEPT !.resets = @ + 1]
    /\ UNCHANGED <<current_scenario, settings, G, paused, center_of_mass, center_of_mass_velocity,
                   rng, twin>>

\* reset also resuming a paused simulation
reset_resuming ==
    /\ time' = 0
    /\ frame_count' = 0
    /\ current_dt' = settings.base_dt
    /\ energy_history' = <<>>
    /\ momentum_history' = <<>>
    /\ angular_momentum_history' = <<>>
    /\ collision_events' = <<>>
    /\ bodies' = SeqOf(LAMBDA i : [bodies[i] EXCEPT !.collision_detected = FALSE],
                       Len(bodies))
    /\ visual' = SeqOf(LAMBDA i : [visual[i] EXCEPT !.particles = <<>>], Len(visual))
    /\ elapsed' = SeqOf(LAMBDA i : 0, Len(elapsed))
    /\ returned' = <<>>
    /\ raised' = FALSE
    /\ last' = Call("reset", 0, 0)
    /\ calls' = [calls EXCEPT !.resets = @ + 1]
    /\ UNCHANGED <<current_scenario, settings, G, center_of_mass, center_of_mass_velocity,
                   rng, twin>>
    /\ paused' = FALSE

\* reset
reset ==
    /\ time' = 0
    /\ frame_count' = 0
    /\ current_dt' = settings.base_dt
    /\ energy_history' = <<>>
    /\ momentum_history' = <<>>
    /\ angular_momentum_history' = <<>>
    /\ collision_events' = <<>>
    /\ bodies' = SeqOf(LAMBDA i : [bodies[i] EXCEPT !.collision_detected = FALSE],
                       Len(bodies))
    /\ visual' = SeqOf(LAMBDA i : [visual[i] EXCEPT !.particles = <<>>], Len(visual))
    /\ elapsed' = SeqOf(LAMBDA i : 0, Len(elapsed))
    /\ returned' = <<>>
    /\ raised' = FALSE
    /\ last' = Call("reset", 0, 0)
    /\ calls' = [calls EXCEPT !.resets = @ + 1]
    /\ UNCHANGED <<current_scenario, settings, G, paused, center_of_mass, center_of_mass_velocity,
                   rng, twin>>

\* toggle_pause
toggle_pause ==
    /\ paused' = ~paused
    /\ returned' = <<>>
    /\ raised' = FALSE
    /\ last' = Call("toggle_pause", 0, 0)
    /\ UNCHANGED <<current_scenario, settings, G, bodies, time, frame_count, energy_history,
                   momentum_history, angular_momentum_history, current_dt,
                   collision_events, center_of_mass, center_of_mass_velocity,
                   visual, rng, twin, elapsed, calls>>

----------------------------------------------------------------------------
(* Spec: any sequence of calls on a simulation, within the bounds *)

AddBody ==
    /\ Len(bodies) < MaxBodies
    /\ Len(bodies) < Len(BodyPool)
    /\ add_body(BodyPool[Len(bodies) + 1])

\* a call of calculate_gravitational_force on a pair, in the order of adding
ForceCall ==
    /\ Len(collision_events) < MaxEvents
    /\ \E i, j \in Idx(bodies) : i < j /\ calculate_gravitational_force(i, j)

Step ==
    /\ paused \/ calls.steps < MaxSteps
    /\ step

Reset ==
    /\ calls.resets < MaxResets
    /\ reset

TogglePause == toggle_pause

Next == AddBody \/ ForceCall \/ Step \/ Reset \/ TogglePause

Spec == Init /\ [][Next]_vars

----------------------------------------------------------------------------
(* SpecRun: a constructed scenario (every body added), stepped, paused and
   reset for more than two sampling periods *)

\* the visual fields of the n bodies a factory constructs, from state s on
factory_visual(n, s) == SeqOf(LAMBDA k : Visual(rng_after(s, k - 1)), n)

\* the state a scenario factory returns, with sim.G = g and the generator in
\* state s before it: __init__, the bodies, then add_body of every body
ConstructedFrom(st, bs, g, s) ==
    /\ settings = st
    /\ G = g
    /\ bodies = bs
    /\ time = 0
    /\ frame_count = 0
    /\ paused = FALSE
    /\ energy_history = <<>>
    /\ momentum_history = <<>>
    /\ angular_momentum_history = <<>>
    /\ current_dt = st.base_dt
    /\ collision_events = <<>>
    /\ center_of_mass = update_center_of_mass(bs, <<0, 0>>, <<0, 0>>).com
    /\ center_of_mass_velocity = update_center_of_mass(bs, <<0, 0>>, <<0, 0>>).vel
    /\ visual = factory_visual(Len(bs), s)
    /\ rng = rng_after(s, Len(bs))
    /\ returned = <<>>
    /\ raised = FALSE
    /\ elapsed = SeqOf(LAMBDA k : 0, Len(bs))
    /\ last = Call("add_body", Len(bs), 0)
    /\ calls = [steps |-> 0, resets |-> 0]

\* a single instance built by a factory that leaves G at 1.0
Constructed(st, bs) ==
    /\ ConstructedFrom(st, bs, Real(1), 0)
    /\ twin = <<>>
    /\ current_scenario = NoRenderer

\* running step() calls of one behaviour of SpecRun
MaxRunSteps == 21

\* create_enhanced_figure_eight: three unit masses with total momentum (0, 0)
FigureEight ==
    <<Body("Alpha", Real(1), -((97 * SCALE) \div 100), (24 * SCALE) \div 100,
           (47 * SCALE) \div 100, (43 * SCALE) \div 100),
      Body("Beta", Real(1), -((97 * SCALE) \div 100), -((24 * SCALE) \div 100),
           (47 * SCALE) \div 100, -((43 * SCALE) \div 100)),
      Body("Gamma", Real(1), (97 * SCALE) \div 100, 0,
           -(2 * ((47 * SCALE) \div 100)), 0)>>

InitRun ==
    \/ \E m \in {"RK4", "Leapfrog"}, n \in {2, 3} :
          Constructed(Timesteps(m, TRUE, Real(1), WideThreshold),
                      SubSeq(BodyPool, 1, n))
    \/ Constructed(Timesteps("RK4", TRUE, Real(1), WideThreshold), FigureEight)

RunStep ==
    /\ paused \/ calls.steps < MaxRunSteps
    /\ step

NextRun == RunStep \/ Reset \/ TogglePause

SpecRun == InitRun /\ [][NextRun]_vars

----------------------------------------------------------------------------
(* SpecLong: one scenario stepped until the histories are full and evict *)

\* step() calls of the behaviour of SpecLong
MaxLongSteps == 10011

\* two equal bodies one length unit either side of the origin
LongBodies ==
    <<Body("Alpha", Real(1), -SCALE, 0, 0, -((2 * SCALE) \div 5)),
      Body("Beta", Real(1), SCALE, 0, 0, (2 * SCALE) \div 5)>>

\* a fixed timestep of 0.1
InitLong ==
    Constructed(PhysicsSettings("RK4", FALSE, SCALE \div 10, SCALE \div 10,
                                SCALE \div 10, WideThreshold),
                LongBodies)

LongStep ==
    /\ frame_count < MaxLongSteps
    /\ step

SpecLong == InitLong /\ [][LongStep]_vars

----------------------------------------------------------------------------
(* SpecClose: a simulation with sim.G set, to which bodies close to each other
   are added, two of them at the same place with the same velocity; any
   sequence of calls *)

\* running step() calls of one behaviour of SpecClose
MaxCloseSteps == 3

\* two light bodies that start at the origin together, and a third at
\* distance 0.5 of them
ClosePool ==
    <<Body("Alpha", (33 * SCALE) \div 100, 0, 0, (3 * SCALE) \div 10, 0),
      Body("Beta", (7 * SCALE) \div 100, 0, 0, (3 * SCALE) \div 10, 0),
      Body("Gamma", Real(1), (3 * SCALE) \div 10, (2 * SCALE) \div 5, 0, 0)>>

\* sim.G as the factories set it: left at 1.0, or 1.5
GravitationalConstants == {Real(1), (3 * SCALE) \div 2}

\* Leapfrog with the softening whose square underflows
TinySettings ==
    [Timesteps("Leapfrog", TRUE, Real(1), HALF) EXCEPT
        !.softening_parameter = TinySoftening]

\* an empty simulation with the softening 0.1, or Alpha and Beta in a
\* simulation with the tiny softening
InitClose ==
    /\ \/ \E m \in {"RK4", "Leapfrog"}, g \in GravitationalConstants :
             ConstructedFrom(Timesteps(m, TRUE, Real(1), HALF), <<>>, g, 0)
       \/ ConstructedFrom(TinySettings, SubSeq(ClosePool, 1, 2), Real(1), 0)
    /\ twin = <<>>
    /\ current_scenario = NoRenderer

\* the simulation with the tiny softening keeps to its two bodies
AddClose ==
    /\ settings.softening_parameter # TinySoftening
    /\ Len(bodies) < Len(ClosePool)
    /\ add_body(ClosePool[Len(bodies) + 1])

CloseStep ==
    /\ paused \/ calls.steps < MaxCloseSteps
    /\ step

\* a call of calculate_gravitational_force on a pair, in either order
CloseForceCall ==
    /\ Len(collision_events) < MaxEvents
    /\ \E i, j \in Idx(bodies) : i # j /\ calculate_gravitational_force(i, j)

NextClose == AddClose \/ CloseForceCall \/ CloseStep \/ Reset \/ TogglePause

SpecClose == InitClose /\ [][NextClose]_vars

\* the same simulations under add_body, step, reset and toggle_pause alone
NextCalls == AddClose \/ CloseStep \/ Reset \/ TogglePause

SpecCalls == InitClose /\ [][NextCalls]_vars

----------------------------------------------------------------------------
(* SpecTwin: the same factory called twice in one process; each of the two
   instances is then stepped on its own, in any interleaving *)

\* step() calls on each instance of one behaviour of SpecTwin
MaxTwinSteps == 4

\* states the generator may be in when the factory is first called
Seeds == {0, 5}

\* the instance a factory returns, as the record of its fields
Instance(st, bs, g, s) ==
    [settings |-> st, G |-> g, bodies |-> bs, time |-> 0, frame_count |-> 0,
     paused |-> FALSE, current_dt |-> st.base_dt,
     visual |-> factory_visual(Len(bs), s)]

\* step of the instance t: what it leaves in t and in the generator
twin_finish(t, bs, dt1, e) ==
    [twin |-> [t EXCEPT !.bodies = bs, !.current_dt = dt1, !.time = @ + dt1,
                        !.frame_count = @ + 1, !.visual = e.visual],
     rng |-> e.rng]

\* step of the instance t, after its bodies are integrated and updated to bs
twin_after(t, bs, s) ==
    twin_finish(t, bs, adaptive_timestep_control(bs, t.current_dt, t.settings),
                visual_loop(bs, t.visual, 1, t.current_dt, s))

\* step of the instance t, with the generator in state s
twin_step(t, s) ==
    IF t.paused THEN [twin |-> t, rng |-> s]
    ELSE twin_after(t, update_bodies(integrate(t.bodies, t.current_dt, t.settings, t.G),
                                     t.current_dt), s)

\* the factory builds the second instance, then the first
InitTwin ==
    \E m \in {"RK4", "Leapfrog"}, n \in {2, 3}, s \in Seeds,
       g \in GravitationalConstants :
        /\ twin = Instance(Timesteps(m, TRUE, Real(1), WideThreshold),
                           SubSeq(BodyPool, 1, n), g, s)
        /\ ConstructedFrom(Timesteps(m, TRUE, Real(1), WideThreshold),
                           SubSeq(BodyPool, 1, n), g, rng_after(s, n))
        /\ current_scenario = NoRenderer

FirstStep ==
    /\ calls.steps < MaxTwinSteps
    /\ step

SecondStep ==
    /\ twin.frame_count < MaxTwinSteps
    /\ \E r \in {twin_step(twin, rng)} :
          /\ twin' = r.twin
          /\ rng' = r.rng
    /\ returned' = <<>>
    /\ raised' = FALSE
    /\ last' = Call("twin.step", 0, 0)
    /\ UNCHANGED <<current_scenario, settings, G, bodies, time, frame_count, paused, energy_history,
                   momentum_history, angular_momentum_history, current_dt,
                   collision_events, center_of_mass, center_of_mass_velocity,
                   visual, elapsed, calls>>

NextTwin == FirstStep \/ SecondStep

SpecTwin == InitTwin /\ [][NextTwin]_vars

----------------------------------------------------------------------------
(* SpecLog: the force model called over and over on two bodies at the same
   place *)

\* calls of the force model in the behaviour of SpecLog
MaxForceCalls == 1001

InitLog ==
    /\ ConstructedFrom(Timesteps("RK4", TRUE, Real(1), HALF), ClosePool, Real(1), 0)
    /\ twin = <<>>
    /\ current_scenario = NoRenderer

LogCall ==
    /\ Len(collision_events) < MaxForceCalls
    /\ calculate_gravitational_force(1, 2)

SpecLog == InitLog /\ [][LogCall]_vars

----------------------------------------------------------------------------
(* SpecRenderer: AdvancedRenderer holding its current simulation: frames of
   update_simulation and the keys space, R, 1, 2 and 3 of handle_events. The
   camera and the display switches are left out. A frame is taken one step()
   call at a time. *)

\* step() calls of one behaviour of SpecRenderer
MaxRendererSteps == 2

\* presses of R, 1, 2 or 3 in one behaviour of SpecRenderer
MaxKeys == 2

\* create_enhanced_solar_system, scaled to the resolution: a heavy body at
\* rest, a lighter one in orbit and a small one near it
SolarSystem ==
    <<Body("Sun", Real(2), 0, 0, 0, 0),
      Body("Earth", HALF, SCALE, 0, 0, (3 * SCALE) \div 10),
      Body("Moon", SCALE \div 10, (13 * SCALE) \div 10, 0, 0, (2 * SCALE) \div 5)>>

\* create_binary_capture, scaled to the resolution: two stars of unequal mass
\* and a light planet above them
BinaryCapture ==
    <<Body("Star A", Real(1), -SCALE, 0, 0, SCALE \div 5),
      Body("Star B", (3 * SCALE) \div 5, (3 * SCALE) \div 2, 0, 0, -(SCALE \div 3)),
      Body("Planet", SCALE \div 10, 0, 2 * SCALE, SCALE \div 5, 0)>>

\* what a scenario factory builds: the settings, sim.G and the bodies
Scenario(name, method, g, bs) ==
    [name |-> name,
     settings |-> Timesteps(method, TRUE, Real(1), WideThreshold),
     G |-> g,
     bodies |-> bs]

\* self.scenarios, by key
scenarios ==
    ("1" :> Scenario("Enhanced Figure-8", "RK4", Real(1), FigureEight))
    @@ ("2" :> Scenario("Solar System", "Leapfrog", (3 * SCALE) \div 2, SolarSystem))
    @@ ("3" :> Scenario("Binary Capture", "RK4", Real(2), BinaryCapture))

\* creator_func(): the fields of the instance the factory of scenario sc
\* returns, the generator being in state s before
creator_func(sc, s) ==
    [settings |-> sc.settings,
     G |-> sc.G,
     bodies |-> sc.bodies,
     time |-> 0,
     frame_count |-> 0,
     paused |-> FALSE,
     energy_history |-> <<>>,
     momentum_history |-> <<>>,
     angular_momentum_history |-> <<>>,
     current_dt |-> sc.settings.base_dt,
     collision_events |-> <<>>,
     center_of_mass |-> update_center_of_mass(sc.bodies, <<0, 0>>, <<0, 0>>).com,
     center_of_mass_velocity |-> update_center_of_mass(sc.bodies, <<0, 0>>, <<0, 0>>).vel,
     visual |-> factory_visual(Len(sc.bodies), s),
     rng |-> rng_after(s, Len(sc.bodies)),
     elapsed |-> SeqOf(LAMBDA k : 0, Len(sc.bodies))]

\* the instance self.current_sim.reset() would leave, as the record of its fields
reset_in_place(s) ==
    [settings |-> settings,
     G |-> G,
     bodies |-> SeqOf(LAMBDA i : [bodies[i] EXCEPT !.collision_detected = FALSE],
                      Len(bodies)),
     time |-> 0,
     frame_count |-> 0,
     paused |-> paused,
     energy_history |-> <<>>,
     momentum_history |-> <<>>,
     angular_momentum_history |-> <<>>,
     current_dt |-> settings.base_dt,
     collision_events |-> <<>>,
     center_of_mass |-> center_of_mass,
     center_of_mass_velocity |-> center_of_mass_velocity,
     visual |-> SeqOf(LAMBDA i : [visual[i] EXCEPT !.particles = <<>>], Len(visual)),
     rng |-> s,
     elapsed |-> SeqOf(LAMBDA k : 0, Len(bodies))]

\* self.current_sim is the instance c
current_sim_is(c) ==
    /\ settings = c.settings
    /\ G = c.G
    /\ bodies = c.bodies
    /\ time = c.time
    /\ frame_count = c.frame_count
    /\ paused = c.paused
    /\ energy_history = c.energy_history
    /\ momentum_history = c.momentum_history
    /\ angular_momentum_history = c.angular_momentum_history
    /\ current_dt = c.current_dt
    /\ collision_events = c.collision_events
    /\ center_of_mass = c.center_of_mass
    /\ center_of_mass_velocity = c.center_of_mass_velocity
    /\ visual = c.visual
    /\ rng = c.rng
    /\ elapsed = c.elapsed

\* self.current_sim = c
set_current_sim(c) ==
    /\ settings' = c.settings
    /\ G' = c.G
    /\ bodies' = c.bodies
    /\ time' = c.time
    /\ frame_count' = c.frame_count
    /\ paused' = c.paused
    /\ energy_history' = c.energy_history
    /\ momentum_history' = c.momentum_history
    /\ angular_momentum_history' = c.angular_momentum_history
    /\ current_dt' = c.current_dt
    /\ collision_events' = c.collision_events
    /\ center_of_mass' = c.center_of_mass
    /\ center_of_mass_velocity' = c.center_of_mass_velocity
    /\ visual' = c.visual
    /\ rng' = c.rng
    /\ elapsed' = c.elapsed

\* AdvancedRenderer.__init__: the figure-eight scenario
InitRenderer ==
    /\ current_scenario = "Enhanced Figure-8"
    /\ current_sim_is(creator_func(scenarios["1"], 0))
    /\ twin = <<>>
    /\ returned = <<>>
    /\ raised = FALSE
    /\ last = Call("init", 0, 0)
    /\ calls = [steps |-> 0, resets |-> 0]

\* switch_scenario(key)
switch_scenario(key) ==
    /\ IF key \in DOMAIN scenarios
       THEN /\ current_scenario' = scenarios[key].name
            /\ set_current_sim(creator_func(scenarios[key], rng))
       ELSE UNCHANGED <<current_scenario, settings, G, bodies, time, frame_count,
                        paused, energy_history, momentum_history,
                        angular_momentum_history, current_dt, collision_events,
                        center_of_mass, center_of_mass_velocity, visual, rng,
                        elapsed>>
    /\ returned' = <<>>
    /\ raised' = FALSE
    /\ last' = Call("switch_scenario", key, 0)
    /\ calls' = [calls EXCEPT !.resets = @ + 1]
    /\ UNCHANGED twin

\* the keys whose scenario has the name of the current one
current_keys == {key \in DOMAIN scenarios : scenarios[key].name = current_scenario}

\* reset_simulation calling reset() of the current simulation
reset_simulation_by_reset ==
    /\ set_current_sim(reset_in_place(rng))
    /\ returned' = <<>>
    /\ raised' = FALSE
    /\ last' = Call("reset_simulation", IF paused THEN 1 ELSE 0, frame_count)
    /\ calls' = [calls EXCEPT !.resets = @ + 1]
    /\ UNCHANGED <<current_scenario, twin>>

\* reset_simulation; last records whether the simulation was paused and how
\* many steps it had made
reset_simulation ==
    /\ IF current_keys # {}
       THEN \E key \in current_keys : set_current_sim(creator_func(scenarios[key], rng))
       ELSE UNCHANGED <<settings, G, bodies, time, frame_count, paused,
                        energy_history, momentum_history,
                        angular_momentum_history, current_dt, collision_events,
                        center_of_mass, center_of_mass_velocity, visual, rng,
                        elapsed>>
    /\ returned' = <<>>
    /\ raised' = FALSE
    /\ last' = Call("reset_simulation", IF paused THEN 1 ELSE 0, frame_count)
    /\ calls' = [calls EXCEPT !.resets = @ + 1]
    /\ UNCHANGED <<current_scenario, twin>>

\* update_simulation: a call of self.current_sim.step()
RendererStep ==
    /\ paused \/ calls.steps < MaxRendererSteps
    /\ step

\* handle_events: K_r
KeyR ==
    /\ calls.resets < MaxKeys
    /\ reset_simulation

\* handle_events: K_1, K_2, K_3
KeyDigit ==
    /\ calls.resets < MaxKeys
    /\ \E key \in {"1", "2", "3"} : switch_scenario(key)

\* handle_events: K_SPACE
KeySpace == toggle_pause

NextRenderer == RendererStep \/ KeyR \/ KeyDigit \/ KeySpace

SpecRenderer == InitRenderer /\ [][NextRenderer]_vars

----------------------------------------------------------------------------
(* The claims *)

StepCalled == last'.op = "step"

\* the kinematic state of the bodies: mass, position, velocity
Kinematics(bs) ==
    SeqOf(LAMBDA i : <<bs[i].mass, bs[i].x, bs[i].y, bs[i].vx, bs[i].vy>>, Len(bs))

\* C1: while the simulation is paused a call of step() changes nothing: time,
\* step counter, current_dt, every field of every body, the three histories,
\* the collision log and the center of mass are the same after the call.
C1_PausedStepIsNoOp ==
    [][(paused /\ StepCalled) => UNCHANGED physics]_vars

C1_Witness ==
    /\ last.op = "step"
    /\ paused
    /\ frame_count > 0
    /\ Len(bodies) >= 2

\* C2: a running step() advances time by the current_dt the integrator was
\* applied with (the value at the start of the step) and the step counter by 1.
C2_TimeAdvancesByDtUsed ==
    [][(~paused /\ StepCalled) =>
          /\ time' = time + current_dt
          /\ frame_count' = frame_count + 1]_vars

\* C3: with 0 < min_dt <= base_dt <= max_dt, current_dt is in [min_dt, max_dt]
\* in every reachable state.
C3_DtWithinBounds ==
    (0 < settings.min_dt /\ settings.min_dt <= settings.base_dt
                         /\ settings.base_dt <= settings.max_dt)
    => (settings.min_dt <= current_dt /\ current_dt <= settings.max_dt)

\* the largest recorded acceleration magnitude
MaxRecordedAcceleration ==
    MaxSeq(SeqOf(LAMBDA i : Norm(bodies[i].acceleration_x, bodies[i].acceleration_y),
                 Len(bodies)), 0)

\* a step has just clamped a proposal below min_dt to min_dt
C3_Witness ==
    /\ last.op = "step"
    /\ ~paused
    /\ settings.adaptive_timestep
    /\ MaxRecordedAcceleration > 0
    /\ Sqrt(Div(ErrorTolerance, MaxRecordedAcceleration)) < settings.min_dt
    /\ current_dt = settings.min_dt

\* C4: reset() zeroes time and the step counter, sets current_dt to base_dt,
\* empties the three histories and the collision log, and leaves every body's
\* mass, position and velocity as they were just before the call.
C4_ResetEffect ==
    [][last'.op = "reset" =>
          /\ time' = 0
          /\ frame_count' = 0
          /\ current_dt' = settings.base_dt
          /\ energy_history' = <<>>
          /\ momentum_history' = <<>>
          /\ angular_momentum_history' = <<>>
          /\ collision_events' = <<>>
          /\ Kinematics(bodies') = Kinematics(bodies)]_vars

\* a reset simulation whose bodies are not where they were added
C4_Witness ==
    /\ last.op = "reset"
    /\ time = 0
    /\ Len(bodies) >= 2
    /\ Kinematics(bodies) # Kinematics(SubSeq(BodyPool, 1, Len(bodies)))

\* the mass-weighted mean of the values v of bodies of masses m
WeightedMean(m, v) ==
    QDiv(SCALE * SumSeq(SeqOf(LAMBDA i : QDiv(m[i] * v[i], SCALE), Len(m))), SumSeq(m))

Column(bs, k) == SeqOf(LAMBDA i : Kinematics(bs)[i][k], Len(bs))

\* C5: with at least one body, center_of_mass is the mass-weighted mean of the
\* bodies' current positions and center_of_mass_velocity that of their current
\* velocities, in every reachable state.
C5_CenterOfMassIsCurrent ==
    Len(bodies) >= 1 =>
        /\ center_of_mass = <<WeightedMean(Column(bodies, 1), Column(bodies, 2)),
                              WeightedMean(Column(bodies, 1), Column(bodies, 3))>>
        /\ center_of_mass_velocity =
               <<WeightedMean(Column(bodies, 1), Column(bodies, 4)),
                 WeightedMean(Column(bodies, 1), Column(bodies, 5))>>

\* steps have moved the center of mass of three bodies from where add_body left it
C5_Witness ==
    /\ last.op = "step"
    /\ Len(bodies) = 3
    /\ center_of_mass # update_center_of_mass(BodyPool, <<0, 0>>, <<0, 0>>).com

\* a running step() of at least two bodies at a step counter that is a multiple of 10
SampleDue == ~paused /\ StepCalled /\ Len(bodies) >= 2 /\ frame_count % 10 = 0

\* C6: the three histories never hold more than 1000 samples and always have
\* the same length; a sample taken when they hold 1000 evicts the oldest
\* sample of each and appends the new one at the end.
C6_HistoriesBounded ==
    [][/\ Len(energy_history') <= 1000
       /\ Len(momentum_history') = Len(energy_history')
       /\ Len(angular_momentum_history') = Len(energy_history')
       /\ (SampleDue /\ Len(energy_history) = 1000) =>
             /\ energy_history' =
                    Append(Tail(energy_history), total_energy(bodies', settings, G))
             /\ momentum_history' =
                    Append(Tail(momentum_history), momentum_norm(bodies'))
             /\ angular_momentum_history' =
                    Append(Tail(angular_momentum_history),
                           angular_momentum_abs(bodies'))]_vars

\* full histories from which the samples of the first steps have been evicted
C6_Witness ==
    /\ last.op = "step"
    /\ frame_count > 10001
    /\ Len(energy_history) = 1000
    /\ energy_history[1] # energy_history[1000]
    /\ angular_momentum_history[1] # angular_momentum_history[999]

\* the number of samples n steps from a reset leave: min(1000, ceil(n / 10))
SamplesAfter(n) == Min(1000, (n + 9) \div 10)

SquaredDistance(i, j) ==
    (bodies[j].x - bodies[i].x) * (bodies[j].x - bodies[i].x)
    + (bodies[j].y - bodies[i].y) * (bodies[j].y - bodies[i].y)

Flags(bs) == SeqOf(LAMBDA k : bs[k].collision_detected, Len(bs))

\* C8: calculate_gravitational_force(body1, body2) on a pair whose unsoftened
\* distance is strictly below collision_threshold sets collision_detected on
\* both bodies and appends exactly (time, name1, name2) to the collision log;
\* at a distance equal to or above the threshold it changes no flag and the
\* log; it never changes a position, a velocity or a mass.
C8_ForceModelCollision ==
    [][last'.op = "calculate_gravitational_force" =>
          /\ Kinematics(bodies') = Kinematics(bodies)
          /\ IF SquaredDistance(last'.a, last'.b)
                    < settings.collision_threshold * settings.collision_threshold
             THEN /\ bodies'[last'.a].collision_detected
                  /\ bodies'[last'.b].collision_detected
                  /\ \A k \in Idx(bodies) \ {last'.a, last'.b} :
                         bodies'[k].collision_detected = bodies[k].collision_detected
                  /\ collision_events' =
                         Append(collision_events,
                                <<time, bodies[last'.a].name, bodies[last'.b].name>>)
             ELSE /\ Flags(bodies') = Flags(bodies)
                  /\ collision_events' = collision_events]_vars

\* a call on Beta and Gamma, closer than the threshold, has flagged and logged them
C8_Witness ==
    /\ last = Call("calculate_gravitational_force", 2, 3)
    /\ Len(bodies) = 3
    /\ Flags(bodies) = <<FALSE, TRUE, TRUE>>
    /\ collision_events = <<<<time, "Beta", "Gamma">>>>

UnknownMethod == settings.integration_method \notin {"RK4", "Leapfrog"}

Motion(bs) ==
    SeqOf(LAMBDA i : <<bs[i].x, bs[i].y, bs[i].vx, bs[i].vy,
                       bs[i].acceleration_x, bs[i].acceleration_y>>, Len(bs))

\* C10: with fewer than two bodies both integrators return without changing
\* anything, so a step() changes no position, velocity or acceleration,
\* however many steps are taken.
C10_FewBodiesNoMotion ==
    [][Len(bodies) < 2 =>
          /\ rk4_step(bodies, current_dt, settings, G) = bodies
          /\ leapfrog_step(bodies, current_dt, settings, G) = bodies
          /\ StepCalled => Motion(bodies') = Motion(bodies)]_vars

\* two running steps of a single body with a velocity
C10_Witness ==
    /\ last.op = "step"
    /\ ~paused
    /\ Len(bodies) = 1
    /\ frame_count >= 2
    /\ bodies[1].vy # 0
    /\ Motion(bodies) = Motion(SubSeq(BodyPool, 1, 1))

\* the largest acceleration magnitude recorded in the bodies bs
MaxAccelerationOf(bs) ==
    MaxSeq(SeqOf(LAMBDA i : Norm(bs[i].acceleration_x, bs[i].acceleration_y),
                 Len(bs)), 0)

\* C11: a running step() leaves current_dt unchanged when adaptive_timestep is
\* disabled or the largest recorded acceleration magnitude is exactly zero, and
\* otherwise sets it to sqrt(error_tolerance / max_acceleration) clamped to
\* [min_dt, max_dt]; the division is never by a zero acceleration.
C11_AdaptiveController ==
    [][(~paused /\ StepCalled) =>
          \E a \in {MaxAccelerationOf(bodies')} :
              IF ~settings.adaptive_timestep \/ a = 0
              THEN current_dt' = current_dt
              ELSE /\ a > 0
                   /\ current_dt' = Min(Max(Sqrt(Div(ErrorTolerance, a)),
                                            settings.min_dt),
                                        settings.max_dt)]_vars

\* an adaptive step of a single body, whose recorded acceleration is zero
C11_Witness ==
    /\ last.op = "step"
    /\ ~paused
    /\ settings.adaptive_timestep
    /\ Len(bodies) = 1
    /\ MaxRecordedAcceleration = 0
    /\ frame_count >= 1
    /\ current_dt = settings.base_dt
    /\ current_dt # settings.max_dt

ForceCalled == last'.op = "calculate_gravitational_force"

\* C12: the force calculate_gravitational_force(A, B) returns is exactly the
\* component-wise negation of the force calculate_gravitational_force(B, A)
\* returns, for every pair of bodies: stated for a call on (A, B) followed by
\* the call on (B, A).
C12_ForceAntisymmetric ==
    [][(last.op = "calculate_gravitational_force" /\ ForceCalled
          /\ ~raised /\ ~raised'
          /\ last'.a = last.b /\ last'.b = last.a)
       => returned' = <<-returned[1], -returned[2]>>]_vars

Names(bs) == SeqOf(LAMBDA i : bs[i].name, Len(bs))

\* C13: two instances built by the same factory start with the same bodies
\* (number, order, names, masses, positions, velocities), the same G and
\* settings, time 0, step counter 0 and not paused; and whenever both have been
\* stepped the same number of times their positions, velocities, time and
\* current_dt are the same, whatever the generator drew for their visual state.
C13_ScenarioDeterminism ==
    /\ (frame_count = 0 /\ twin.frame_count = 0) =>
          /\ Names(twin.bodies) = Names(bodies)
          /\ twin.G = G
          /\ twin.settings = settings
          /\ twin.time = 0 /\ time = 0
          /\ ~twin.paused /\ ~paused
    /\ twin.frame_count = frame_count =>
          /\ Kinematics(twin.bodies) = Kinematics(bodies)
          /\ twin.time = time
          /\ twin.current_dt = current_dt

\* both instances stepped three times or more, with different visual state
C13_Witness ==
    /\ twin.frame_count = frame_count
    /\ frame_count >= 3
    /\ visual # twin.visual
    /\ \A i \in Idx(bodies) :
          /\ visual[i].particles # <<>>
          /\ visual[i].particles # twin.visual[i].particles
          /\ visual[i].pulsation_phase # twin.visual[i].pulsation_phase
    /\ Kinematics(bodies) # Kinematics(SubSeq(BodyPool, 1, Len(bodies)))

Masses(bs) == SeqOf(LAMBDA i : bs[i].mass, Len(bs))

\* C14: step, reset, toggle_pause (and the force model) never change the
\* number, order, names or masses of the bodies; add_body appends one body at
\* the end and leaves the others as they are; every mass stays positive.
C14_BodiesOnlyAdded ==
    [][/\ last'.op \in {"step", "reset", "toggle_pause",
                        "calculate_gravitational_force"} =>
             /\ Names(bodies') = Names(bodies)
             /\ Masses(bodies') = Masses(bodies)
       /\ last'.op = "add_body" =>
             /\ Len(bodies') = Len(bodies) + 1
             /\ SubSeq(bodies', 1, Len(bodies)) = bodies
       /\ \A i \in Idx(bodies') : bodies'[i].mass > 0]_vars

\* three bodies, one of them flagged as collided, stepped after a reset
C14_Witness ==
    /\ last.op = "step"
    /\ ~paused
    /\ calls.resets > 0
    /\ frame_count > 0
    /\ Names(bodies) = <<"Alpha", "Beta", "Gamma">>
    /\ Masses(bodies) = Masses(BodyPool)
    /\ \E i \in Idx(bodies) : bodies[i].collision_detected

\* the total momentum of the bodies bs, sum of mass times velocity, unrounded
TotalMomentum(bs) ==
    <<SumSeq(SeqOf(LAMBDA i : bs[i].mass * bs[i].vx, Len(bs))),
      SumSeq(SeqOf(LAMBDA i : bs[i].mass * bs[i].vy, Len(bs)))>>

\* the bodies as the factory of the run added them
InitialBodies ==
    IF Masses(bodies) = Masses(FigureEight) THEN FigureEight
    ELSE SubSeq(BodyPool, 1, Len(bodies))

\* the numerical tolerance of one step: the roundings of a step put each
\* velocity component off by at most 2 units of resolution per partner and 2 more
StepTolerance == SumSeq(Masses(bodies)) * (2 * (Len(bodies) - 1) + 2)

MomentumDrift ==
    Max(Abs(TotalMomentum(bodies)[1] - TotalMomentum(InitialBodies)[1]),
        Abs(TotalMomentum(bodies)[2] - TotalMomentum(InitialBodies)[2]))

\* C15: with at least 2 bodies the total momentum after N running steps equals
\* the total momentum before the first step to within N times the tolerance of
\* one step, under RK4 and under Leapfrog; the figure-eight scenario, built
\* with total momentum (0, 0), has it within that tolerance of (0, 0).
C15_MomentumConserved ==
    Len(bodies) >= 2 =>
        /\ MomentumDrift <= calls.steps * StepTolerance
        /\ Masses(bodies) = Masses(FigureEight) =>
              /\ TotalMomentum(FigureEight) = <<0, 0>>
              /\ Abs(TotalMomentum(bodies)[1]) <= calls.steps * StepTolerance
              /\ Abs(TotalMomentum(bodies)[2]) <= calls.steps * StepTolerance

\* ten Leapfrog steps have changed every velocity of three bodies of different mass
C15_Witness ==
    /\ last.op = "step"
    /\ settings.integration_method = "Leapfrog"
    /\ calls.steps >= 10
    /\ Len(bodies) = 3
    /\ \A i \in Idx(bodies) : bodies[i].vx # BodyPool[i].vx /\ bodies[i].vy # BodyPool[i].vy

\* C16: the collision log never holds more than 1000 collision events.
C16_CollisionLogCapped == Len(collision_events) <= 1000

\* the softened r-squared the integrators divide by for bodies i and j
SoftenedSquare(i, j) ==
    r_squared_of(bodies[j].x - bodies[i].x, bodies[j].y - bodies[i].y, settings)

\* the distance of bodies i and j of bs
Separation(bs, i, j) == Norm(bs[j].x - bs[i].x, bs[j].y - bs[i].y)

\* the potential energy of the pairs of bs farther apart than the softening length
DistantPairsPotential(bs) ==
    SumSeq(SeqOf(LAMBDA i :
        SumSeq(SeqOf(LAMBDA j :
            IF j > i /\ Separation(bs, i, j) > settings.softening_parameter
            THEN -MulDiv(Mul(G, bs[i].mass), bs[j].mass, Separation(bs, i, j))
            ELSE 0,
            Len(bs))),
        Len(bs)))

KineticEnergy(bs) == SumSeq(SeqOf(LAMBDA i : get_kinetic_energy(bs[i]), Len(bs)))

\* the conclusion of C17: no divisor is zero and no call raises
NoDivisorIsZero ==
    /\ \A i, j \in Idx(bodies) :
          i # j => /\ SoftenedSquare(i, j) >= Mul(settings.softening_parameter,
                                                  settings.softening_parameter)
                   /\ SoftenedSquare(i, j) > 0
                   /\ Sqrt(SoftenedSquare(i, j)) > 0
    /\ bodies # <<>> => SumSeq(Masses(bodies)) > 0
    /\ (StepCalled /\ bodies = <<>>) =>
          UNCHANGED <<center_of_mass, center_of_mass_velocity>>
    /\ SampleDue =>
          energy_history'[Len(energy_history')] =
              KineticEnergy(bodies') + DistantPairsPotential(bodies')
    /\ StepCalled => ~raised'

NewEvents ==
    {collision_events'[e] : e \in (Len(collision_events) + 1)..Len(collision_events')}

\* C18: a running step() with at least 2 bodies evaluates the force model for
\* the pairs: for every pair whose unsoftened separation is below
\* collision_threshold at the step both collision_detected flags are set after
\* it and the step appends an event naming the two bodies to the collision log.
C18_StepLogsCollisions ==
    [][(~paused /\ StepCalled /\ Len(bodies) >= 2) =>
          \A i, j \in Idx(bodies) :
              (i < j /\ SquaredDistance(i, j)
                          < settings.collision_threshold * settings.collision_threshold)
              => /\ bodies'[i].collision_detected
                 /\ bodies'[j].collision_detected
                 /\ \E e \in NewEvents :
                        {e[2], e[3]} = {bodies[i].name, bodies[j].name}]_vars

\* C19: a collision flag that has been set stays set for the whole decay
\* window: a running step() clears the flag of a body only when the dt of the
\* running steps since the flag was set, this step included, exceeds 1.0; a
\* paused step() clears no flag.
C19_FlagKeepsDecayWindow ==
    [][StepCalled =>
          \A k \in Idx(bodies) :
              (bodies[k].collision_detected /\ ~bodies'[k].collision_detected)
              => /\ ~paused
                 /\ elapsed[k] + current_dt > CollisionWindow]_vars

\* C20: after a running RK4 step with at least 2 bodies the acceleration and
\* the force each body reports are the ones of the k1 evaluation, computed at
\* the positions the bodies had when the step began.
C20_ReportsStartOfStepAcceleration ==
    [][(~paused /\ StepCalled /\ settings.integration_method = "RK4"
          /\ Len(bodies) >= 2) =>
          \E k1 \in {rk4_accelerations(bodies, state_of(bodies), settings, G)} :
              \A i \in Idx(bodies) :
                  /\ bodies'[i].acceleration_x = k1[i][1]
                  /\ bodies'[i].acceleration_y = k1[i][2]
                  /\ bodies'[i].force_x = Mul(k1[i][1], bodies[i].mass)
                  /\ bodies'[i].force_y = Mul(k1[i][2], bodies[i].mass)]_vars

\* the bodies as the k2 evaluation of an RK4 step from bs finds them (r1 is
\* the result of the k1 evaluation) and as it leaves them
StageBodies(r1, state, dt) ==
    [found |-> r1.bodies,
     left  |-> get_derivatives_rk4(r1.bodies,
                                   Advance(state, Mul(HALF, dt), r1.derivatives),
                                   settings, G).bodies]

\* C21: during an RK4 step the evaluation of an intermediate stage mutates no
\* Body field: the bodies are after the k2 evaluation as the k1 evaluation
\* left them.
C21_StagesMutateNothing ==
    [][(~paused /\ StepCalled /\ settings.integration_method = "RK4"
          /\ Len(bodies) >= 2) =>
          \E r \in {StageBodies(get_derivatives_rk4(bodies, state_of(bodies), settings, G),
                                state_of(bodies), current_dt)} :
              r.left = r.found]_vars

\* every body of bs half-kicked by its acceleration with all bodies where they
\* are in bs
HalfKick(bs, dt) ==
    SeqOf(LAMBDA i :
            [bs[i] EXCEPT
               !.vx = @ + Mul(Mul(HALF, dt), calculate_acceleration(bs, i, settings, G)[1]),
               !.vy = @ + Mul(Mul(HALF, dt), calculate_acceleration(bs, i, settings, G)[2])],
          Len(bs))

\* every body of bs moved by dt times its own velocity
Drift(bs, dt) ==
    SeqOf(LAMBDA i : [bs[i] EXCEPT !.x = @ + Mul(dt, bs[i].vx),
                                   !.y = @ + Mul(dt, bs[i].vy)],
          Len(bs))

\* C22: a Leapfrog step is kick-drift-kick in three separate phases: the first
\* half-kick of every body uses the acceleration with all bodies at their
\* pre-step positions, every position then drifts by dt times the body's own
\* half-kicked velocity, and the second half-kick of every body uses the
\* acceleration with all bodies at their post-drift positions.
C22_KickDriftKick ==
    [][(~paused /\ StepCalled /\ ~raised'
          /\ settings.integration_method = "Leapfrog" /\ Len(bodies) >= 2) =>
          \E h \in {HalfKick(bodies, current_dt)} :
              \E d \in {Drift(h, current_dt)} :
                  /\ \A i \in Idx(bodies) : d[i].x = bodies'[i].x /\ d[i].y = bodies'[i].y
                  /\ Kinematics(bodies') = Kinematics(HalfKick(d, current_dt))]_vars

\* two Leapfrog steps of three bodies, all of them moved and accelerated
C22_Witness ==
    /\ last.op = "step"
    /\ ~paused
    /\ ~raised
    /\ settings.integration_method = "Leapfrog"
    /\ Len(bodies) = 3
    /\ frame_count = 2
    /\ \A i \in Idx(bodies) :
          /\ <<bodies[i].x, bodies[i].y>> # <<BodyPool[i].x, BodyPool[i].y>>
          /\ <<bodies[i].vx, bodies[i].vy>> # <<BodyPool[i].vx, BodyPool[i].vy>>

\* C23: in a simulation configured with integration_method "Leapfrog"
\* current_dt equals base_dt in every reachable state, also with
\* adaptive_timestep enabled: no body ever has a recorded acceleration, and
\* every running step advances time by exactly base_dt.
C23_LeapfrogKeepsBaseDt ==
    [][settings.integration_method = "Leapfrog" =>
          /\ current_dt = settings.base_dt
          /\ current_dt' = settings.base_dt
          /\ MaxAccelerationOf(bodies') = 0
          /\ (~paused /\ StepCalled) => time' = time + settings.base_dt]_vars

\* two adaptive Leapfrog steps of three bodies whose velocities have changed
C23_Witness ==
    /\ last.op = "step"
    /\ ~paused
    /\ settings.integration_method = "Leapfrog"
    /\ settings.adaptive_timestep
    /\ Len(bodies) = 3
    /\ frame_count = 2
    /\ time = 2 * settings.base_dt
    /\ \E i \in Idx(bodies) : bodies[i].vx # BodyPool[i].vx

\* everything a simulation holds but its paused flag
AllButPaused ==
    <<settings, G, bodies, time, frame_count, energy_history, momentum_history,
      angular_momentum_history, current_dt, collision_events, center_of_mass,
      center_of_mass_velocity, visual, rng>>

\* C24: the paused flag is changed only by toggle_pause, which flips it and
\* changes nothing else, so that a second toggle restores the state; step()
\* and reset() never change it: a simulation that is reset while paused is
\* paused afterwards and ignores step(); a new simulation is running.
C24_OnlyTogglePauses ==
    [][/\ last.op = "init" => ~paused
       /\ paused' # paused => last'.op = "toggle_pause"
       /\ last'.op = "toggle_pause" =>
             /\ paused' = ~paused
             /\ UNCHANGED AllButPaused
       /\ last'.op \in {"step", "reset"} => paused' = paused
       /\ (paused /\ last.op = "reset" /\ StepCalled) =>
             UNCHANGED AllButPaused]_vars

\* a step() ignored after a reset of a paused simulation that had been stepped
C24_Witness ==
    /\ last.op = "step"
    /\ paused
    /\ calls.resets = 1
    /\ calls.steps >= 1
    /\ frame_count = 0
    /\ time = 0
    /\ Len(bodies) >= 2
    /\ bodies[1].x # BodyPool[1].x

\* the scenario the renderer is showing
CurrentScenario == scenarios[CHOOSE key \in current_keys : TRUE]

\* C25: the renderer's reset action does not reset the simulation in place: it
\* replaces it by a new instance of the current scenario; after it the bodies
\* are the scenario's initial bodies, time and step counter are 0, the
\* histories and the collision log are empty, the timestep is base_dt, and the
\* simulation is running, also when it was paused before.
C25_RendererResetRebuilds ==
    [][last'.op = "reset_simulation" =>
          /\ current_scenario' = current_scenario
          /\ settings' = CurrentScenario.settings
          /\ G' = CurrentScenario.G
          /\ bodies' = CurrentScenario.bodies
          /\ time' = 0
          /\ frame_count' = 0
          /\ energy_history' = <<>>
          /\ momentum_history' = <<>>
          /\ angular_momentum_history' = <<>>
          /\ collision_events' = <<>>
          /\ current_dt' = CurrentScenario.settings.base_dt
          /\ ~paused']_vars

\* R pressed in the solar-system scenario while it was paused after two steps
C25_Witness ==
    /\ last.op = "reset_simulation"
    /\ last.a = 1
    /\ last.b = 2
    /\ current_scenario = "Solar System"
    /\ ~paused
    /\ bodies = SolarSystem

====
